---- MODULE Spec2Model ----
(***************************************************************************)
(* Model of the ML agent daemon's resource-package handler                 *)
(* (src/daemon/pkg-mgr.cc) and of the daemon's main (src/daemon/main.c).   *)
(*                                                                         *)
(* Strings are sequences of ASCII codes, so that the case-insensitive      *)
(* comparisons of the code are computed character by character.  A C       *)
(* pointer to a string is NULL (the empty tuple) or the one-element tuple  *)
(* holding the string, so that NULL and "" are different values.           *)
(***************************************************************************)
EXTENDS Integers, Sequences, FiniteSets, TLC

VARIABLES
    mainpc,     \* position of main() (main.c)
    pkg_mgr,    \* the global package-manager handle and its subscription
    db,         \* the service database (the registry)
    pending,    \* the lifecycle event the main loop is about to dispatch
    prev,       \* the event handled before that one, with its calls
    event,      \* the event the callback handled last
    pre,        \* the registry as it was when that event was dispatched
    calls,      \* the external calls the callback made for that event
    mainlog,    \* the lifecycle calls main() has made
    returned,   \* per model name, the versions returned by successful adds
    queue,      \* call by call: the events that wait for the main loop
    frames,     \* call by call: the invocations of the callback in progress
    oplog       \* call by call: the calls of all invocations, in time order

vars == <<mainpc, pkg_mgr, db, pending, prev, event, pre, calls, mainlog,
          returned, queue, frames, oplog>>

\* The variables of the specification that runs the callback call by call.
loopvars == <<queue, frames, oplog>>

(***************************************************************************)
(* Bounds of the model.                                                    *)
(***************************************************************************)
\* Largest number of descriptor records one package carries (all files).
MaxRecords == 2
\* Largest number of registry calls the registry rejects within one event.
MaxFail == 1
\* Largest model version the multi-event specification lets a name reach.
MaxVersion == 3
\* Largest number of events the call-by-call specification delivers.
MaxEvents == 2

(***************************************************************************)
(* Strings.                                                                *)
(***************************************************************************)
NULL == <<>>
Ptr(s) == <<s>>
Deref(p) == p[1]

S_empty == <<>>
S_true == <<116, 114, 117, 101>>
S_TRUE == <<84, 82, 85, 69>>
S_True == <<84, 114, 117, 101>>
S_tRuE == <<116, 82, 117, 69>>
S_false == <<102, 97, 108, 115, 101>>
S_tru == <<116, 114, 117>>
S_truex == <<116, 114, 117, 101, 120>>
S_yes == <<121, 101, 115>>
S_one == <<49>>
S_rpk == <<114, 112, 107>>
S_RPK == <<82, 80, 75>>
S_tpk == <<116, 112, 107>>
S_T == <<84>>
S_m1 == <<109, 49>>
S_m2 == <<109, 50>>
S_path == <<97, 46, 116, 102>>
S_d1 == <<100, 49>>
S_d2 == <<100, 50>>
S_app1 == <<97, 112, 112, 49>>
S_app2 == <<97, 112, 112, 50>>
S_v1 == <<49, 46, 48>>
S_v2 == <<50>>
S_ai == <<97, 105>>

\* g_ascii_tolower: only the ASCII letters A-Z change.
g_ascii_tolower(c) == IF c >= 65 /\ c <= 90 THEN c + 32 ELSE c

RECURSIVE StrCaseCmpFrom(_, _, _)
StrCaseCmpFrom(s1, s2, i) ==
    IF i > Len(s1) \/ i > Len(s2)
    THEN (IF i > Len(s1) THEN 0 ELSE s1[i]) - (IF i > Len(s2) THEN 0 ELSE s2[i])
    ELSE LET c1 == g_ascii_tolower(s1[i])
             c2 == g_ascii_tolower(s2[i])
         IN IF c1 # c2 THEN c1 - c2 ELSE StrCaseCmpFrom(s1, s2, i + 1)

\* g_ascii_strcasecmp: 0 iff the strings are equal ignoring ASCII case.
g_ascii_strcasecmp(s1, s2) == StrCaseCmpFrom(s1, s2, 1)

(***************************************************************************)
(* JSON documents, as json-glib presents them.                             *)
(***************************************************************************)
Members == {"name", "model", "description", "activate", "clear", "path"}

JAbsent == [t |-> "absent", s |-> S_empty]
JNumber == [t |-> "number", s |-> S_empty]
JString(s) == [t |-> "string", s |-> s]

\* json_object_get_string_member: NULL for a NULL object, a missing member
\* or a member that holds no string; the string otherwise.
json_object_get_string_member(object, member) ==
    IF object = NULL THEN NULL
    ELSE IF Deref(object)[member].t = "string" THEN Ptr(Deref(object)[member].s)
    ELSE NULL

\* An element of an array: an object, or a node that is not an object.
ElemObject(o) == [t |-> "object", o |-> Ptr(o)]
ElemOther == [t |-> "other", o |-> NULL]

\* json_array_get_object_element: NULL for an element that is no object.
json_array_get_object_element(array, i) == array[i].o

\* The root of a document: an array, an object, or another value.
RootArray(a) == [t |-> "array", a |-> a, o |-> NULL]
RootObject(o) == [t |-> "object", a |-> <<>>, o |-> Ptr(o)]
RootOther == [t |-> "other", a |-> <<>>, o |-> NULL]

\* json_node_get_object: NULL for a root that holds no object.
json_node_get_object(root) == root.o

(***************************************************************************)
(* A descriptor path: missing, a directory, another non-regular file (a    *)
(* FIFO, a device) or a regular file.  Reading a directory fails; the text *)
(* read from any other file is refused by the JSON parser (err) or turned  *)
(* into a root node.                                                       *)
(***************************************************************************)
FileMissing == [ft |-> "missing", err |-> TRUE, root |-> RootOther]
FileDir == [ft |-> "dir", err |-> TRUE, root |-> RootOther]
FileFifo(root) == [ft |-> "fifo", err |-> FALSE, root |-> root]
FileBadJson == [ft |-> "regular", err |-> TRUE, root |-> RootOther]
FileJson(root) == [ft |-> "regular", err |-> FALSE, root |-> root]

\* One test of g_file_test.
FileTestOne(file, test) ==
    IF test = "EXISTS" THEN file.ft # "missing"
    ELSE IF test = "IS_REGULAR" THEN file.ft = "regular"
    ELSE IF test = "IS_DIR" THEN file.ft = "dir"
    ELSE FALSE

\* g_file_test returns whether ANY of the tests of the bitfield is true.
g_file_test(file, tests) == \E test \in tests : FileTestOne(file, test)

\* json_parser_load_from_file: TRUE iff it sets the error.
json_parser_load_from_file(file) == file.err

(***************************************************************************)
(* The service database (service-db-util.h).  Its code is not part of the  *)
(* sources; it is modelled from the operation contracts of the             *)
(* specification.  fail is the registry rejecting the call.                *)
(***************************************************************************)
EmptyDb == [models |-> {}, pipelines |-> {}, resources |-> {}, ver |-> {}]

ModelVersions(d, name) == {m.version : m \in {x \in d.models : x.name = name}}

\* The last version the registry assigned to a name, 0 if none.
LastVersion(d, name) ==
    IF \E r \in d.ver : r.name = name
    THEN (CHOOSE r \in d.ver : r.name = name).last
    ELSE 0

\* A variant of the registry that numbers a model after the versions it
\* still holds, so that deleting all versions restarts the numbering.
NextVersion_restart(d, name) ==
    IF ModelVersions(d, name) = {} THEN 1
    ELSE (CHOOSE v \in ModelVersions(d, name) :
             \A w \in ModelVersions(d, name) : w <= v) + 1

\* The version the next add of name gets: one more than the last assigned.
NextVersion(d, name) == LastVersion(d, name) + 1

svcdb_model_add(d, name, path, active, desc, app_info, fail) ==
    IF fail THEN [db |-> d, ret |-> -1, version |-> 0]
    ELSE LET v == NextVersion(d, name)
             kept == {IF m.name = name /\ active
                      THEN [m EXCEPT !.active = FALSE] ELSE m : m \in d.models}
             new == [name |-> name, version |-> v, path |-> path,
                     active |-> active, description |-> desc,
                     app_info |-> app_info]
         IN [db |-> [d EXCEPT !.models = kept \cup {new},
                              !.ver = {r \in d.ver : r.name # name}
                                      \cup {[name |-> name, last |-> v]}],
             ret |-> 0, version |-> v]

\* version 0 means all versions of name.
svcdb_model_delete(d, name, version, fail) ==
    LET hit == {m \in d.models :
                   m.name = name /\ (version = 0 \/ m.version = version)}
    IN IF fail \/ hit = {} THEN [db |-> d, ret |-> -1]
       ELSE [db |-> [d EXCEPT !.models = d.models \ hit], ret |-> 0]

svcdb_pipeline_set(d, name, desc, fail) ==
    IF fail THEN [db |-> d, ret |-> -1]
    ELSE [db |-> [d EXCEPT !.pipelines =
                     {p \in d.pipelines : p.name # name}
                     \cup {[name |-> name, description |-> desc]}],
          ret |-> 0]

svcdb_resource_add(d, name, path, desc, app_info, fail) ==
    IF fail THEN [db |-> d, ret |-> -1]
    ELSE [db |-> [d EXCEPT !.resources =
                     {r \in d.resources : r.name # name}
                     \cup {[name |-> name, path |-> path,
                            description |-> desc, app_info |-> app_info]}],
          ret |-> 0]

svcdb_resource_delete(d, name, fail) ==
    LET hit == {r \in d.resources : r.name = name}
    IN IF fail \/ hit = {} THEN [db |-> d, ret |-> -1]
       ELSE [db |-> [d EXCEPT !.resources = d.resources \ hit], ret |-> 0]

(***************************************************************************)
(* pkg-mgr.cc.  The handler's progress is a record st: the registry and    *)
(* the external calls made so far.  A call records the record it was made  *)
(* for (site: <<kind, index>>), its arguments, its return value and, for   *)
(* svcdb_model_add, the version it returned.                               *)
(***************************************************************************)
MLSVC_JSON_MODEL == 0
MLSVC_JSON_PIPELINE == 1
MLSVC_JSON_RESOURCE == 2
MLSVC_JSON_MAX == 3

NoSite == <<-1, 0>>

Call(op, site, args, ret, out) ==
    [op |-> op, site |-> site, args |-> args, ret |-> ret, out |-> out]

Emit(st, call, d) == [db |-> d, calls |-> Append(st.calls, call)]

\* Whether the registry rejects the call made at a site.
Rejects(fails, site, what) == <<site[1], site[2], what>> \in fails

\* A variant that writes the resource type and version into each other's member.
get_app_info_swapped(package_name, res_type, res_version) ==
    << <<"is_rpk", S_T>>, <<"app_id", package_name>>,
       <<"res_type", res_version>>, <<"res_version", res_type>> >>

\* _get_app_info: the JSON text, as the ordered list of its members.
get_app_info(package_name, res_type, res_version) ==
    << <<"is_rpk", S_T>>, <<"app_id", package_name>>,
       <<"res_type", res_type>>, <<"res_version", res_version>> >>

\* A variant that compares the flag with "true" letter by letter.
FlagIsTrue_caseSensitive(flag) == flag # NULL /\ Deref(flag) = S_true

\* (flag && g_ascii_strcasecmp (flag, "true") == 0)
FlagIsTrue(flag) == flag # NULL /\ g_ascii_strcasecmp(Deref(flag), S_true) = 0

\* desc ? desc : ""
OrEmpty(p) == IF p = NULL THEN S_empty ELSE Deref(p)

\* Lines 137, 166, 186: the record lacks a required string member.
RecordSkipped(json_type, object) ==
    LET name == json_object_get_string_member(object, "name")
        second == json_object_get_string_member(object,
                      IF json_type = MLSVC_JSON_MODEL THEN "model"
                      ELSE IF json_type = MLSVC_JSON_PIPELINE THEN "description"
                      ELSE "path")
    IN name = NULL \/ second = NULL

\* A variant that deletes the old entry whatever the clear flag says.
ClearOld_always(object) == TRUE

\* bool clear_old = (clear && g_ascii_strcasecmp (clear, "true") == 0)
ClearOld(object) == FlagIsTrue(json_object_get_string_member(object, "clear"))

\* A variant that activates the model when "activate" is not "true".
Active_inverted(object) ==
    ~FlagIsTrue(json_object_get_string_member(object, "activate"))

\* bool active = (activate && g_ascii_strcasecmp (activate, "true") == 0)
Active(object) == FlagIsTrue(json_object_get_string_member(object, "activate"))

\* Lines 147-150: remove the old model, ignoring the result.
ModelClear(object, site, fails, st) ==
    LET name == Deref(json_object_get_string_member(object, "name"))
        r == svcdb_model_delete(st.db, name, 0, Rejects(fails, site, "del"))
    IN IF ClearOld(object)
       THEN Emit(st, Call("svcdb_model_delete", site, <<name, <<0>>>>, r.ret, 0),
                 r.db)
       ELSE st

\* A variant that tries the add a second time when the registry rejects it.
ModelAdd_retry(object, site, app_info, fails, st) ==
    LET name == Deref(json_object_get_string_member(object, "name"))
        model == Deref(json_object_get_string_member(object, "model"))
        desc == OrEmpty(json_object_get_string_member(object, "description"))
        info == OrEmpty(app_info)
        r == svcdb_model_add(st.db, name, model, Active(object), desc, info,
                             Rejects(fails, site, "add"))
        once == Emit(st, Call("svcdb_model_add", site,
                              <<name, model, Active(object), desc, info>>,
                              r.ret, r.version), r.db)
    IN IF r.ret = 0 THEN once
       ELSE Emit(once, Call("svcdb_model_add", site,
                            <<name, model, Active(object), desc, info>>,
                            r.ret, r.version), r.db)

\* Lines 152-158: register the model.
ModelAdd(object, site, app_info, fails, st) ==
    LET name == Deref(json_object_get_string_member(object, "name"))
        model == Deref(json_object_get_string_member(object, "model"))
        desc == OrEmpty(json_object_get_string_member(object, "description"))
        info == OrEmpty(app_info)
        r == svcdb_model_add(st.db, name, model, Active(object), desc, info,
                             Rejects(fails, site, "add"))
    IN Emit(st, Call("svcdb_model_add", site,
                     <<name, model, Active(object), desc, info>>,
                     r.ret, r.version), r.db)

\* A variant that passes the two strings in the other order.
PipelineSet_swapped(object, site, fails, st) ==
    LET name == Deref(json_object_get_string_member(object, "name"))
        desc == Deref(json_object_get_string_member(object, "description"))
        r == svcdb_pipeline_set(st.db, desc, name, Rejects(fails, site, "add"))
    IN Emit(st, Call("svcdb_pipeline_set", site, <<desc, name>>, r.ret, 0), r.db)

\* Line 171: set the pipeline description.
PipelineSet(object, site, fails, st) ==
    LET name == Deref(json_object_get_string_member(object, "name"))
        desc == Deref(json_object_get_string_member(object, "description"))
        r == svcdb_pipeline_set(st.db, name, desc, Rejects(fails, site, "add"))
    IN Emit(st, Call("svcdb_pipeline_set", site, <<name, desc>>, r.ret, 0), r.db)

\* Lines 194-197: remove the old resource, ignoring the result.
ResourceClear(object, site, fails, st) ==
    LET name == Deref(json_object_get_string_member(object, "name"))
        r == svcdb_resource_delete(st.db, name, Rejects(fails, site, "del"))
    IN IF ClearOld(object)
       THEN Emit(st, Call("svcdb_resource_delete", site, <<name>>, r.ret, 0), r.db)
       ELSE st

\* Lines 199-204: register the resource.
ResourceAdd(object, site, app_info, fails, st) ==
    LET name == Deref(json_object_get_string_member(object, "name"))
        path == Deref(json_object_get_string_member(object, "path"))
        desc == OrEmpty(json_object_get_string_member(object, "description"))
        info == OrEmpty(app_info)
        r == svcdb_resource_add(st.db, name, path, desc, info,
                                Rejects(fails, site, "add"))
    IN Emit(st, Call("svcdb_resource_add", site, <<name, path, desc, info>>,
                     r.ret, 0), r.db)

\* The body of the switch for one record (lines 128-210).
ParseRecord(json_type, object, site, app_info, fails, st) ==
    IF RecordSkipped(json_type, object) THEN st
    ELSE IF json_type = MLSVC_JSON_MODEL
    THEN ModelAdd(object, site, app_info, fails,
                  ModelClear(object, site, fails, st))
    ELSE IF json_type = MLSVC_JSON_PIPELINE
    THEN PipelineSet(object, site, fails, st)
    ELSE ResourceAdd(object, site, app_info, fails,
                     ResourceClear(object, site, fails, st))

\* A variant that takes the length from the array only.
JsonLen_arrayOnly(root) == Len(root.a)

\* Lines 109-119: json_len is 1 unless the root is an array.
JsonLen(root) == IF root.t = "array" THEN Len(root.a) ELSE 1

\* Lines 123-126: the object of iteration i (0-based).
ObjectAt(root, i) ==
    IF root.t = "array" THEN json_array_get_object_element(root.a, i + 1)
    ELSE json_node_get_object(root)

\* Whether the last call of st is an add or set the registry rejected.
LastAddFailed(st, before) ==
    /\ Len(st.calls) > Len(before.calls)
    /\ st.calls[Len(st.calls)].ret # 0

\* A variant of the loop that stops at the first skipped record.
RECURSIVE ParseLoop_stopAtSkip(_, _, _, _, _, _)
ParseLoop_stopAtSkip(json_type, root, i, app_info, fails, st) ==
    IF i >= JsonLen(root) \/ RecordSkipped(json_type, ObjectAt(root, i)) THEN st
    ELSE ParseLoop_stopAtSkip(json_type, root, i + 1, app_info, fails,
             ParseRecord(json_type, ObjectAt(root, i), <<json_type, i>>,
                         app_info, fails, st))

\* A variant of the loop that stops at the first rejected add.
RECURSIVE ParseLoop_stopAtFail(_, _, _, _, _, _)
ParseLoop_stopAtFail(json_type, root, i, app_info, fails, st) ==
    IF i >= JsonLen(root) THEN st
    ELSE LET next == ParseRecord(json_type, ObjectAt(root, i), <<json_type, i>>,
                                 app_info, fails, st)
         IN IF LastAddFailed(next, st) THEN next
            ELSE ParseLoop_stopAtFail(json_type, root, i + 1, app_info, fails,
                                      next)

\* Lines 122-211: for (i = 0; i < json_len; ++i).
RECURSIVE ParseLoop(_, _, _, _, _, _)
ParseLoop(json_type, root, i, app_info, fails, st) ==
    IF i >= JsonLen(root) THEN st
    ELSE ParseLoop(json_type, root, i + 1, app_info, fails,
             ParseRecord(json_type, ObjectAt(root, i), <<json_type, i>>,
                         app_info, fails, st))

\* _parse_json for the descriptor file of one kind.
parse_json(file, json_type, app_info, fails, st) ==
    IF ~g_file_test(file, {"EXISTS", "IS_REGULAR"}) THEN st
    ELSE IF json_parser_load_from_file(file) THEN st
    ELSE ParseLoop(json_type, file.root, 0, app_info, fails, st)

\* A variant that handles the kinds from the last one to the first.
RECURSIVE KindLoop_reversed(_, _, _, _, _)
KindLoop_reversed(t, fs, app_info, fails, st) ==
    IF t >= MLSVC_JSON_MAX THEN st
    ELSE parse_json(fs[t], t, app_info, fails,
                    KindLoop_reversed(t + 1, fs, app_info, fails, st))

\* Lines 320-321: for (t = MLSVC_JSON_MODEL; t < MLSVC_JSON_MAX; t++).
RECURSIVE KindLoop(_, _, _, _, _)
KindLoop(t, fs, app_info, fails, st) ==
    IF t >= MLSVC_JSON_MAX THEN st
    ELSE KindLoop(t + 1, fs, app_info, fails,
                  parse_json(fs[t], t, app_info, fails, st))

\* package_info_destroy (pkg_info), its result only logged.
InfoDestroy(st) ==
    Emit(st, Call("package_info_destroy", NoSite, <<>>, 0, 0), st.db)

\* A variant that goes on to the descriptors after a failed lookup.
LookupFailed_never(ret) == FALSE

\* if (ret != PACKAGE_MANAGER_ERROR_NONE) after a package_info call.
LookupFailed(ret) == ret # 0

\* A variant that returns without destroying the package information when
\* the resource version cannot be read.
InstallCompleted_leak(ev, fails, st) ==
    LET info == ev.info
        s1 == Emit(st, Call("package_info_create", NoSite,
                            <<ev.package_name>>, info.create, 0), st.db)
        s2 == Emit(s1, Call("package_info_get_res_type", NoSite, <<>>,
                            info.type_ret, 0), st.db)
        s3 == Emit(s2, Call("package_info_get_res_version", NoSite, <<>>,
                            info.version_ret, 0), st.db)
        app_info == Ptr(get_app_info(ev.package_name, info.res_type,
                                     info.res_version))
    IN IF LookupFailed(info.create) THEN s1
       ELSE IF LookupFailed(info.type_ret) THEN InfoDestroy(s2)
       ELSE IF LookupFailed(info.version_ret) THEN s3
       ELSE KindLoop(MLSVC_JSON_MODEL, ev.fs, app_info, fails, InfoDestroy(s3))

\* Lines 276-321: the Install/Completed branch.
InstallCompleted(ev, fails, st) ==
    LET info == ev.info
        s1 == Emit(st, Call("package_info_create", NoSite,
                            <<ev.package_name>>, info.create, 0), st.db)
        s2 == Emit(s1, Call("package_info_get_res_type", NoSite, <<>>,
                            info.type_ret, 0), st.db)
        s3 == Emit(s2, Call("package_info_get_res_version", NoSite, <<>>,
                            info.version_ret, 0), st.db)
        app_info == Ptr(get_app_info(ev.package_name, info.res_type,
                                     info.res_version))
    IN IF LookupFailed(info.create) THEN s1
       ELSE IF LookupFailed(info.type_ret) THEN InfoDestroy(s2)
       ELSE IF LookupFailed(info.version_ret) THEN InfoDestroy(s3)
       ELSE KindLoop(MLSVC_JSON_MODEL, ev.fs, app_info, fails, InfoDestroy(s3))

\* A variant that takes every package type for a resource package.
IsResourcePackage_any(type) == TRUE

\* Line 266: g_ascii_strcasecmp (type, "rpk") == 0.
IsResourcePackage(type) == g_ascii_strcasecmp(type, S_rpk) = 0

\* _pkg_mgr_echo_pkg_path_info: lists the package directory in the log;
\* it calls neither the package-info service nor the registry.
pkg_mgr_echo_pkg_path_info(st) == st

\* A variant that registers the descriptors again when an update completes.
pkg_mgr_event_cb_updateRegisters(ev, fails, d) ==
    LET st == [db |-> d, calls |-> <<>>]
    IN IF ev.event_type = "RES_COPY" THEN st
       ELSE IF ~IsResourcePackage(ev.type) THEN st
       ELSE IF ev.event_state = "COMPLETED"
               /\ ev.event_type \in {"INSTALL", "UPDATE"}
       THEN InstallCompleted(ev, fails, st)
       ELSE st

\* _pkg_mgr_event_cb: the registry and the calls after handling ev.
pkg_mgr_event_cb(ev, fails, d) ==
    LET st == [db |-> d, calls |-> <<>>]
    IN IF ev.event_type = "RES_COPY" THEN st
       ELSE IF ~IsResourcePackage(ev.type) THEN st
       ELSE IF ev.event_type = "INSTALL" /\ ev.event_state = "COMPLETED"
       THEN InstallCompleted(ev, fails, st)
       ELSE IF ev.event_type = "UNINSTALL" /\ ev.event_state = "STARTED"
       THEN pkg_mgr_echo_pkg_path_info(st)
       ELSE IF ev.event_type = "UPDATE" /\ ev.event_state = "COMPLETED"
       THEN pkg_mgr_echo_pkg_path_info(st)
       ELSE st

(***************************************************************************)
(* main.c and the delivery of events.  An input is a lifecycle event (with *)
(* what the package-info lookup and the package directory hold for it) and *)
(* the set of registry calls the registry rejects while it is handled.     *)
(***************************************************************************)
\* The versions successful svcdb_model_add calls returned, as <<name, v>>.
ReturnedBy(cs) ==
    {<<cs[i].args[1], cs[i].out>> :
        i \in {j \in 1..Len(cs) : cs[j].op = "svcdb_model_add" /\ cs[j].ret = 0}}

\* main, lines 108-111: parse_args fails and main jumps to error.
ParseArgs ==
    /\ mainpc = "parse_args"
    /\ \E ok \in BOOLEAN :
          mainpc' = IF ok THEN "svcdb_initialize" ELSE "svcdb_finalize"
    /\ UNCHANGED <<pkg_mgr, db, pending, prev, event, pre, calls, mainlog, returned>>
    /\ UNCHANGED loopvars

\* main, line 116.
SvcdbInitialize ==
    /\ mainpc = "svcdb_initialize"
    /\ mainlog' = Append(mainlog, <<"svcdb_initialize", 0>>)
    /\ mainpc' = "pkg_mgr_init"
    /\ UNCHANGED <<pkg_mgr, db, pending, prev, event, pre, calls, returned>>
    /\ UNCHANGED loopvars

\* pkg_mgr_init, called at main line 126: the first step that fails.
pkg_mgr_init(failing) ==
    [handle |-> failing # "create", cb |-> failing = "none",
     ret |-> IF failing = "none" THEN 0 ELSE -1]

PkgMgrInit ==
    /\ mainpc = "pkg_mgr_init"
    /\ \E failing \in {"create", "set_event_status", "set_event_cb", "none"} :
          LET r == pkg_mgr_init(failing)
          IN /\ pkg_mgr' = [handle |-> r.handle, cb |-> r.cb]
             /\ mainlog' = Append(mainlog, <<"pkg_mgr_init", r.ret>>)
    /\ mainpc' = "loop"
    /\ UNCHANGED <<db, pending, prev, event, pre, calls, returned>>
    /\ UNCHANGED loopvars

\* The package manager hands an event to the main loop.
Deliver(input) ==
    /\ mainpc = "loop"
    /\ pkg_mgr.cb
    /\ pending = <<>>
    /\ \A r \in db.ver : r.last < MaxVersion
    /\ pending' = <<input>>
    /\ prev' = IF event = <<>> THEN prev
               ELSE <<[input |-> event[1], calls |-> calls]>>
    /\ event' = <<>>
    /\ calls' = <<>>
    /\ pre' = db
    /\ UNCHANGED <<mainpc, pkg_mgr, db, mainlog, returned>>
    /\ UNCHANGED loopvars

\* The main loop runs _pkg_mgr_event_cb for the pending event, to its end.
Dispatch ==
    /\ mainpc = "loop"
    /\ pending # <<>>
    /\ LET st == pkg_mgr_event_cb(pending[1].ev, pending[1].fails, db)
       IN /\ db' = st.db
          /\ calls' = st.calls
          /\ returned' = returned \cup ReturnedBy(st.calls)
    /\ event' = pending
    /\ pre' = db
    /\ pending' = <<>>
    /\ UNCHANGED <<mainpc, pkg_mgr, prev, mainlog>>
    /\ UNCHANGED loopvars

\* handle_sigterm: g_main_loop_quit ends g_main_loop_run (main line 130).
Sigterm ==
    /\ mainpc = "loop"
    /\ mainpc' = "pkg_mgr_deinit"
    /\ pending' = <<>>
    /\ UNCHANGED <<pkg_mgr, db, prev, event, pre, calls, mainlog, returned>>
    /\ UNCHANGED loopvars

\* pkg_mgr_deinit: package_manager_destroy fails on a handle never created.
pkg_mgr_deinit(handle) == IF handle THEN 0 ELSE -1

PkgMgrDeinit ==
    /\ mainpc = "pkg_mgr_deinit"
    /\ mainlog' = Append(mainlog, <<"pkg_mgr_deinit", pkg_mgr_deinit(pkg_mgr.handle)>>)
    /\ pkg_mgr' = [handle |-> FALSE, cb |-> FALSE]
    /\ mainpc' = "svcdb_finalize"
    /\ UNCHANGED <<db, pending, prev, event, pre, calls, returned>>
    /\ UNCHANGED loopvars

\* main, line 141 (the label error).
SvcdbFinalize ==
    /\ mainpc = "svcdb_finalize"
    /\ mainlog' = Append(mainlog, <<"svcdb_finalize", 0>>)
    /\ mainpc' = "done"
    /\ UNCHANGED <<pkg_mgr, db, pending, prev, event, pre, calls, returned>>
    /\ UNCHANGED loopvars

(***************************************************************************)
(* The callback run call by call.  The package manager may announce an     *)
(* event at any time, also while the callback handles an earlier one; the  *)
(* event then waits in the main context.  An invocation is a frame: the    *)
(* calls the callback makes for its event, and how many of them it made.   *)
(***************************************************************************)
\* The result of the call c of an invocation, made on the registry d.
ExecCall(d, c, fails) ==
    IF c.op = "svcdb_model_delete"
    THEN svcdb_model_delete(d, c.args[1], c.args[2][1],
                            Rejects(fails, c.site, "del"))
    ELSE IF c.op = "svcdb_model_add"
    THEN svcdb_model_add(d, c.args[1], c.args[2], c.args[3], c.args[4],
                         c.args[5], Rejects(fails, c.site, "add"))
    ELSE IF c.op = "svcdb_pipeline_set"
    THEN svcdb_pipeline_set(d, c.args[1], c.args[2],
                            Rejects(fails, c.site, "add"))
    ELSE IF c.op = "svcdb_resource_delete"
    THEN svcdb_resource_delete(d, c.args[1], Rejects(fails, c.site, "del"))
    ELSE IF c.op = "svcdb_resource_add"
    THEN svcdb_resource_add(d, c.args[1], c.args[2], c.args[3], c.args[4],
                            Rejects(fails, c.site, "add"))
    ELSE [db |-> d, ret |-> c.ret]

\* An entry of the log: a call, or the entry or return of an invocation.
LogEntry(f, op, site, args, ret) ==
    [id |-> f.id, busy |-> f.busy, op |-> op, site |-> site, args |-> args,
     ret |-> ret]

\* The number of events announced so far.
Arrived ==
    Len(queue) + Cardinality({i \in 1..Len(oplog) : oplog[i].op = "enter"})

\* The package manager announces an event; busy tells whether the callback
\* was handling another event at that moment.
Arrive(input) ==
    /\ mainpc = "loop"
    /\ pkg_mgr.cb
    /\ Arrived < MaxEvents
    /\ queue' = Append(queue, [id |-> Arrived + 1, busy |-> frames # <<>>,
                               input |-> input])
    /\ UNCHANGED <<mainpc, pkg_mgr, db, pending, prev, event, pre, calls,
                   mainlog, returned, frames, oplog>>

\* A variant in which the main loop starts a callback inside a callback.
LoopIdle_reentrant == TRUE

\* g_main_loop_run dispatches on the thread of main, and _pkg_mgr_event_cb
\* never iterates the main context: no callback starts inside another.
LoopIdle == frames = <<>>

\* The main loop invokes _pkg_mgr_event_cb for the event that waited longest.
HandlerEnter ==
    /\ mainpc = "loop"
    /\ LoopIdle
    /\ queue # <<>>
    /\ LET e == Head(queue)
           f == [id |-> e.id, busy |-> e.busy, input |-> e.input, pre |-> db,
                 plan |-> pkg_mgr_event_cb(e.input.ev, e.input.fails, db).calls,
                 pc |-> 0]
       IN /\ frames' = <<f>> \o frames
          /\ oplog' = Append(oplog, LogEntry(f, "enter", NoSite, <<>>, 0))
    /\ queue' = Tail(queue)
    /\ UNCHANGED <<mainpc, pkg_mgr, db, pending, prev, event, pre, calls,
                   mainlog, returned>>

\* The invocation in progress makes its next call.
HandlerStep ==
    /\ frames # <<>>
    /\ Head(frames).pc < Len(Head(frames).plan)
    /\ LET f == Head(frames)
           c == f.plan[f.pc + 1]
           r == ExecCall(db, c, f.input.fails)
       IN /\ db' = r.db
          /\ oplog' = Append(oplog, LogEntry(f, c.op, c.site, c.args, r.ret))
          /\ frames' = <<[f EXCEPT !.pc = f.pc + 1]>> \o Tail(frames)
    /\ UNCHANGED <<mainpc, pkg_mgr, pending, prev, event, pre, calls,
                   mainlog, returned, queue>>

\* The invocation in progress has made its calls and returns.
HandlerReturn ==
    /\ frames # <<>>
    /\ Head(frames).pc = Len(Head(frames).plan)
    /\ oplog' = Append(oplog, LogEntry(Head(frames), "return", NoSite, <<>>, 0))
    /\ frames' = Tail(frames)
    /\ UNCHANGED <<mainpc, pkg_mgr, db, pending, prev, event, pre, calls,
                   mainlog, returned, queue>>

(***************************************************************************)
(* Inputs.                                                                 *)
(***************************************************************************)
Obj(name, model, path, description, activate, clear) ==
    [name |-> name, model |-> model, path |-> path,
     description |-> description, activate |-> activate, clear |-> clear]

M_ok == Obj(JString(S_m1), JString(S_path), JAbsent, JAbsent, JString(S_true), JAbsent)
M_clear == Obj(JString(S_m1), JString(S_path), JAbsent, JString(S_d1), JAbsent, JString(S_True))
M_noName == Obj(JAbsent, JString(S_path), JAbsent, JAbsent, JAbsent, JString(S_true))
M_noModel == Obj(JString(S_m1), JNumber, JAbsent, JAbsent, JAbsent, JAbsent)
P_ok == Obj(JString(S_m1), JAbsent, JAbsent, JString(S_d1), JAbsent, JAbsent)
P_other == Obj(JString(S_m1), JAbsent, JAbsent, JString(S_d2), JAbsent, JString(S_true))
P_noName == Obj(JNumber, JAbsent, JAbsent, JString(S_d1), JAbsent, JAbsent)
P_noDesc == Obj(JString(S_m1), JAbsent, JAbsent, JAbsent, JAbsent, JAbsent)
R_ok == Obj(JString(S_m1), JAbsent, JString(S_path), JAbsent, JAbsent, JString(S_false))
R_clear == Obj(JString(S_m1), JAbsent, JString(S_path), JString(S_d1), JAbsent, JString(S_TRUE))
R_noName == Obj(JAbsent, JAbsent, JString(S_path), JAbsent, JAbsent, JString(S_true))
R_noPath == Obj(JString(S_m1), JString(S_path), JAbsent, JAbsent, JAbsent, JAbsent)

\* The objects a descriptor of each kind is drawn from.
ObjPool(k) ==
    IF k = MLSVC_JSON_MODEL THEN {M_ok, M_clear, M_noName, M_noModel}
    ELSE IF k = MLSVC_JSON_PIPELINE THEN {P_ok, P_other, P_noName, P_noDesc}
    ELSE {R_ok, R_clear, R_noName, R_noPath}

ElemPool(k) == {ElemObject(o) : o \in ObjPool(k)} \cup {ElemOther}

\* A well-formed object of each kind.
GoodObj(k) ==
    IF k = MLSVC_JSON_MODEL THEN M_ok
    ELSE IF k = MLSVC_JSON_PIPELINE THEN P_ok ELSE R_clear

\* The descriptor files of kind k that hold n records.
FilesWith(k, n) ==
    IF n = 0
    THEN {FileMissing, FileDir, FileBadJson, FileJson(RootOther),
          FileJson(RootArray(<<>>))}
    ELSE {FileJson(RootArray(a)) : a \in [1..n -> ElemPool(k)]}
         \cup (IF n = 1
               THEN {FileJson(RootObject(o)) : o \in ObjPool(k)}
                    \cup {FileFifo(RootObject(GoodObj(k)))}
               ELSE {})

\* The number of records of each kind, at most MaxRecords in all.
Counts ==
    {c \in [0..2 -> 0..MaxRecords] : c[0] + c[1] + c[2] <= MaxRecords}

\* A package directory: one descriptor file (or none) per kind.
Dir(f0, f1, f2) == [t \in 0..2 |-> IF t = 0 THEN f0 ELSE IF t = 1 THEN f1 ELSE f2]

\* A directory with one well-formed record of each kind, and an empty one.
DirFull ==
    Dir(FileJson(RootObject(GoodObj(0))), FileJson(RootObject(GoodObj(1))),
        FileJson(RootObject(GoodObj(2))))
DirEmpty == Dir(FileMissing, FileMissing, FileMissing)

\* What the package-info lookup answers.
Info(create, type_ret, version_ret, res_version) ==
    [create |-> create, type_ret |-> type_ret, version_ret |-> version_ret,
     res_type |-> S_ai, res_version |-> res_version]

InfoOk == Info(0, 0, 0, S_v1)
InfoFailures == {Info(-1, 0, 0, S_v1), Info(0, -1, 0, S_v1), Info(0, 0, -1, S_v1)}

Event(type, package_name, event_type, event_state, info, fs) ==
    [type |-> type, package_name |-> package_name, event_type |-> event_type,
     event_state |-> event_state, info |-> info, fs |-> fs]

EventTypes == {"INSTALL", "UNINSTALL", "UPDATE", "MOVE", "RES_COPY"}
EventStates == {"STARTED", "PROCESSING", "COMPLETED", "FAILED"}

\* The elements of the document a readable descriptor file holds.
Elems(file) ==
    IF file.ft = "missing" \/ file.err THEN <<>>
    ELSE IF file.root.t = "array" THEN file.root.a
    ELSE IF file.root.t = "object" THEN <<[t |-> "object", o |-> file.root.o]>>
    ELSE <<>>

\* Whether an element holds member as a string.
HasString(elem, member) ==
    elem.t = "object" /\ elem.o[1][member].t = "string"

Required(k) ==
    IF k = MLSVC_JSON_MODEL THEN {"name", "model"}
    ELSE IF k = MLSVC_JSON_PIPELINE THEN {"name", "description"}
    ELSE {"name", "path"}

\* A record with every required field of its kind.
WellFormed(k, elem) == \A m \in Required(k) : HasString(elem, m)

\* The tokens that equal "true" ignoring letter case, among those used.
TrueTokens == {S_true, S_TRUE, S_True}

\* A record of a kind that has a clear flag, with the flag set.
WantsClear(k, elem) ==
    /\ k # MLSVC_JSON_PIPELINE
    /\ HasString(elem, "clear")
    /\ elem.o[1]["clear"].s \in TrueTokens

\* The registry calls a directory can lead to: <<kind, index, what>>.
Sites(fs) ==
    {s \in (0..2) \X (0..(MaxRecords - 1)) \X {"add", "del"} :
        /\ s[2] + 1 <= Len(Elems(fs[s[1]]))
        /\ WellFormed(s[1], Elems(fs[s[1]])[s[2] + 1])
        /\ s[3] = "del" => WantsClear(s[1], Elems(fs[s[1]])[s[2] + 1])}

\* The sets of calls the registry may reject while one event is handled.
FailSets(fs) == {F \in SUBSET Sites(fs) : Cardinality(F) <= MaxFail}

Input(ev, fails) == [ev |-> ev, fails |-> fails]

InstallOf(package_name, info, fs) ==
    Event(S_rpk, package_name, "INSTALL", "COMPLETED", info, fs)

\* The events of the specification of one event that reach no descriptor.
OtherInputs ==
    {Input(InstallOf(S_app2, info, fs), {}) :
        info \in InfoFailures, fs \in {DirFull, DirEmpty}}
    \cup {Input(Event(type, S_app2, et, es, Info(0, 0, 0, S_v2), fs), {}) :
             type \in {S_rpk, S_RPK, S_tpk}, et \in EventTypes,
             es \in EventStates, fs \in {DirFull, DirEmpty}}

\* A directory with one record of one kind and no other descriptor file.
DirOne(k, o) ==
    Dir(IF k = 0 THEN FileJson(RootObject(o)) ELSE FileMissing,
        IF k = 1 THEN FileJson(RootObject(o)) ELSE FileMissing,
        IF k = 2 THEN FileJson(RootObject(o)) ELSE FileMissing)

\* A directory whose pipeline descriptor holds two records of one name.
DirPipes ==
    Dir(FileMissing,
        FileJson(RootArray(<<ElemObject(P_ok), ElemObject(P_other)>>)),
        FileMissing)

LoopDirs ==
    {DirOne(MLSVC_JSON_MODEL, o) : o \in {M_ok, M_clear}}
    \cup {DirOne(MLSVC_JSON_PIPELINE, o) : o \in {P_ok, P_other}}
    \cup {DirOne(MLSVC_JSON_RESOURCE, o) : o \in {R_ok, R_clear}}
    \cup {DirPipes}

\* The inputs of the specification of the running daemon.
LoopInputs ==
    UNION {{Input(InstallOf(S_app1, InfoOk, fs), F) : F \in FailSets(fs)} :
              fs \in LoopDirs}
    \cup {Input(InstallOf(S_app1, Info(0, -1, 0, S_v1), DirFull), {}),
          Input(Event(S_tpk, S_app1, "INSTALL", "COMPLETED", InfoOk, DirFull), {}),
          Input(Event(S_rpk, S_app1, "UNINSTALL", "STARTED", InfoOk, DirFull), {}),
          Input(Event(S_rpk, S_app1, "UPDATE", "COMPLETED", InfoOk, DirFull), {}),
          Input(Event(S_rpk, S_app1, "RES_COPY", "STARTED", InfoOk, DirFull), {})}

\* A registry that earlier installations have filled.
DbLoaded ==
    LET ev == InstallOf(S_app2, Info(0, 0, 0, S_v2), DirFull)
    IN pkg_mgr_event_cb(ev, {}, pkg_mgr_event_cb(ev, {}, EmptyDb).db).db

DbPool == {EmptyDb, DbLoaded}

(***************************************************************************)
(* Specifications.                                                         *)
(***************************************************************************)
\* The daemon from its start: main, and the events of the main loop.
Init ==
    /\ mainpc = "parse_args"
    /\ pkg_mgr = [handle |-> FALSE, cb |-> FALSE]
    /\ db = EmptyDb
    /\ pending = <<>>
    /\ prev = <<>>
    /\ event = <<>>
    /\ pre = EmptyDb
    /\ calls = <<>>
    /\ mainlog = <<>>
    /\ returned = {}
    /\ queue = <<>> /\ frames = <<>> /\ oplog = <<>>

Next ==
    \/ ParseArgs
    \/ SvcdbInitialize
    \/ PkgMgrInit
    \/ \E input \in LoopInputs : Deliver(input)
    \/ Dispatch
    \/ Sigterm
    \/ PkgMgrDeinit
    \/ SvcdbFinalize

Spec == Init /\ [][Next]_vars

\* One event, dispatched by the main loop of a daemon that is running.
InitEvent ==
    /\ mainpc = "loop"
    /\ pkg_mgr = [handle |-> TRUE, cb |-> TRUE]
    /\ db \in DbPool
    /\ \/ \E c \in Counts :
             \E f0 \in FilesWith(0, c[0]), f1 \in FilesWith(1, c[1]),
                f2 \in FilesWith(2, c[2]) :
                \E F \in FailSets(Dir(f0, f1, f2)) :
                   pending = <<Input(InstallOf(S_app1, InfoOk, Dir(f0, f1, f2)), F)>>
       \/ \E input \in OtherInputs : pending = <<input>>
    /\ prev = <<>>
    /\ event = <<>>
    /\ pre = db
    /\ calls = <<>>
    /\ mainlog = <<<<"svcdb_initialize", 0>>, <<"pkg_mgr_init", 0>>>>
    /\ returned = {<<m.name, m.version>> : m \in db.models}
    /\ queue = <<>> /\ frames = <<>> /\ oplog = <<>>

NextEvent == Dispatch

SpecEvent == InitEvent /\ [][NextEvent]_vars

\* The values a flag member of a record takes in the specification of one
\* record: absent, not a string, and strings near and far from "true".
FlagPool ==
    {JAbsent, JNumber} \cup
    {JString(t) : t \in {S_true, S_TRUE, S_True, S_tRuE, S_false, S_tru,
                         S_truex, S_yes, S_one, S_empty}}

\* The values of a name member: a name, the empty string, absent.
NamePool == {JString(S_m1), JString(S_empty), JAbsent}

\* One event whose only descriptor holds one model or resource record,
\* dispatched by the main loop of a daemon that is running.
InitRecord ==
    /\ mainpc = "loop"
    /\ pkg_mgr = [handle |-> TRUE, cb |-> TRUE]
    /\ db \in DbPool
    /\ \E name \in NamePool, second \in {JString(S_path), JAbsent},
          description \in {JString(S_d1), JAbsent}, clear \in FlagPool :
          \/ \E activate \in FlagPool :
                pending = <<Input(InstallOf(S_app1, InfoOk,
                               DirOne(MLSVC_JSON_MODEL,
                                      Obj(name, second, JAbsent, description,
                                          activate, clear))), {})>>
          \/ pending = <<Input(InstallOf(S_app1, InfoOk,
                               DirOne(MLSVC_JSON_RESOURCE,
                                      Obj(name, JAbsent, second, description,
                                          JAbsent, clear))), {})>>
    /\ prev = <<>>
    /\ event = <<>>
    /\ pre = db
    /\ calls = <<>>
    /\ mainlog = <<<<"svcdb_initialize", 0>>, <<"pkg_mgr_init", 0>>>>
    /\ returned = {<<m.name, m.version>> : m \in db.models}
    /\ queue = <<>> /\ frames = <<>> /\ oplog = <<>>

NextRecord == Dispatch

SpecRecord == InitRecord /\ [][NextRecord]_vars

\* The events of the call-by-call specification.
RunInputs ==
    {Input(InstallOf(S_app1, InfoOk, DirFull), {}),
     Input(InstallOf(S_app1, InfoOk, DirOne(MLSVC_JSON_MODEL, M_ok)), {}),
     Input(InstallOf(S_app1, InfoOk, DirOne(MLSVC_JSON_MODEL, M_clear)),
           {<<0, 0, "add">>}),
     Input(InstallOf(S_app1, Info(0, -1, 0, S_v1), DirFull), {}),
     Input(Event(S_rpk, S_app1, "UNINSTALL", "STARTED", InfoOk, DirFull), {})}

\* The running daemon, its callback run call by call.
InitLoop ==
    /\ mainpc = "loop"
    /\ pkg_mgr = [handle |-> TRUE, cb |-> TRUE]
    /\ db \in DbPool
    /\ pending = <<>>
    /\ prev = <<>>
    /\ event = <<>>
    /\ pre = db
    /\ calls = <<>>
    /\ mainlog = <<<<"svcdb_initialize", 0>>, <<"pkg_mgr_init", 0>>>>
    /\ returned = {<<m.name, m.version>> : m \in db.models}
    /\ queue = <<>> /\ frames = <<>> /\ oplog = <<>>

NextLoop ==
    \/ \E input \in RunInputs : Arrive(input)
    \/ HandlerEnter
    \/ HandlerStep
    \/ HandlerReturn

SpecLoop == InitLoop /\ [][NextLoop]_vars

(***************************************************************************)
(* Vocabulary of the properties.                                           *)
(***************************************************************************)
Handled == event # <<>>
Ev == event[1].ev
Fails == event[1].fails

RegistryOps ==
    {"svcdb_model_delete", "svcdb_model_add", "svcdb_pipeline_set",
     "svcdb_resource_delete", "svcdb_resource_add"}
AddOps == {"svcdb_model_add", "svcdb_pipeline_set", "svcdb_resource_add"}
DeleteOps == {"svcdb_model_delete", "svcdb_resource_delete"}

IsRegistryCall(c) == c.op \in RegistryOps
RegistryCalls(cs) == SelectSeq(cs, IsRegistryCall)

\* The package category is the resource-package tag.
TagMatches(type) == type \in {S_rpk, S_RPK}

InstallCompletedRpk(ev) ==
    TagMatches(ev.type) /\ ev.event_type = "INSTALL" /\ ev.event_state = "COMPLETED"

LookupOk(ev) ==
    ev.info.create = 0 /\ ev.info.type_ret = 0 /\ ev.info.version_ret = 0

\* An Install/Completed event of a resource package whose lookup succeeded.
Installing == Handled /\ InstallCompletedRpk(Ev) /\ LookupOk(Ev)

\* A call as issued: without what the registry answered.
Issued(c) == [op |-> c.op, site |-> c.site, args |-> c.args]
IssuedSeq(cs) == [i \in 1..Len(cs) |-> Issued(cs[i])]

\* The positions in cs of the calls with an operation of ops at a site.
CallsAt(cs, ops, k, i) ==
    {j \in 1..Len(cs) : cs[j].op \in ops /\ cs[j].site = <<k, i>>}

\* The add or set calls of kind k, in the order issued.
IsAddOf0(c) == c.op \in AddOps /\ c.site[1] = 0
IsAddOf1(c) == c.op \in AddOps /\ c.site[1] = 1
IsAddOf2(c) == c.op \in AddOps /\ c.site[1] = 2
AddsOf(cs, k) ==
    IF k = 0 THEN SelectSeq(cs, IsAddOf0)
    ELSE IF k = 1 THEN SelectSeq(cs, IsAddOf1) ELSE SelectSeq(cs, IsAddOf2)

\* The 0-based indices of the well-formed records among elems[i..].
RECURSIVE GoodIndices(_, _, _)
GoodIndices(k, elems, i) ==
    IF i > Len(elems) THEN <<>>
    ELSE (IF WellFormed(k, elems[i]) THEN <<i - 1>> ELSE <<>>)
         \o GoodIndices(k, elems, i + 1)

\* The file of kind k was read and parsed.
Readable(file) == file.ft # "missing" /\ ~file.err

(***************************************************************************)
(* C1.  When the package metadata lookup of an Install/Completed event of  *)
(* a resource package fails at any step (creating the handle, reading the  *)
(* resource type, reading the resource version), the handler issues no     *)
(* registry operation and the registry is unchanged.                       *)
(***************************************************************************)
C1_LookupFailureTouchesNothing ==
    (Handled /\ InstallCompletedRpk(Ev) /\ ~LookupOk(Ev))
        => (RegistryCalls(calls) = <<>> /\ db = pre)

\* A failed read of the resource type with three registrable descriptors.
C1_Witness ==
    /\ Handled /\ InstallCompletedRpk(Ev)
    /\ Ev.info.create = 0 /\ Ev.info.type_ret # 0
    /\ Ev.fs = DirFull
    /\ calls # <<>>

(***************************************************************************)
(* C2.  With the registry accepting every add, a descriptor array of N     *)
(* records of which M lack a required field leads to exactly one add/set   *)
(* call for each of the N-M other records, in array order, each            *)
(* successful, and to none for the M malformed ones, wherever they stand.  *)
(***************************************************************************)
C2_OneAddPerValidRecord ==
    (Installing /\ \A f \in Fails : f[3] # "add")
        => \A k \in 0..2 :
              (Readable(Ev.fs[k]) /\ Ev.fs[k].root.t = "array")
                  => LET elems == Ev.fs[k].root.a
                         adds == AddsOf(calls, k)
                         good == GoodIndices(k, elems, 1)
                     IN /\ Len(adds) = Len(good)
                        /\ \A j \in 1..Len(adds) :
                              /\ adds[j].site[2] = good[j]
                              /\ adds[j].args[1] = elems[good[j] + 1].o[1]["name"].s
                              /\ adds[j].ret = 0

\* A malformed record first, a well-formed one after it, which is added.
C2_Witness ==
    /\ Installing
    /\ Readable(Ev.fs[0]) /\ Ev.fs[0].root.t = "array"
    /\ Len(Ev.fs[0].root.a) = 2
    /\ ~WellFormed(0, Ev.fs[0].root.a[1])
    /\ WellFormed(0, Ev.fs[0].root.a[2])
    /\ \E j \in 1..Len(calls) :
          calls[j].op = "svcdb_model_add" /\ calls[j].site = <<0, 1>>
          /\ calls[j].ret = 0

(***************************************************************************)
(* C3.  A descriptor file whose root is the single object O leads to the   *)
(* same registry calls and the same registry as the file whose root is the *)
(* one-element array [O].                                                  *)
(***************************************************************************)
\* The event with the object root of kind k wrapped into an array.
AsArray(ev, k) ==
    [ev EXCEPT !.fs[k].root = RootArray(<<ElemObject(ev.fs[k].root.o[1])>>)]

C3_ObjectLikeOneElementArray ==
    Installing
        => \A k \in 0..2 :
              (Readable(Ev.fs[k]) /\ Ev.fs[k].root.t = "object")
                  => LET other == pkg_mgr_event_cb(AsArray(Ev, k), Fails, pre)
                     IN calls = other.calls /\ db = other.db

\* A single model object with the clear flag: a delete and an add.
C3_Witness ==
    /\ Installing
    /\ Readable(Ev.fs[0]) /\ Ev.fs[0].root.t = "object"
    /\ Len(RegistryCalls(calls)) = 2
    /\ db # pre

(***************************************************************************)
(* C4 (as claimed).  If the descriptor file of one kind is absent, is not  *)
(* a regular file or fails to parse, no registry operation is issued for   *)
(* that kind, and the other kinds are registered as if it had been handled *)
(* successfully.                                                           *)
(***************************************************************************)
\* The event with the file of kind k replaced by an empty array.
WithEmpty(ev, k) == [ev EXCEPT !.fs[k] = FileJson(RootArray(<<>>))]

C4_UnusableFileSkipsOnlyItsKind ==
    Installing
        => \A k \in 0..2 :
              (Ev.fs[k].ft # "regular" \/ Ev.fs[k].err)
                  => /\ \A j \in 1..Len(calls) : calls[j].site[1] # k
                     /\ calls = pkg_mgr_event_cb(WithEmpty(Ev, k), Fails, pre).calls

(***************************************************************************)
(* C5.  For every well-formed model or resource record a registry delete   *)
(* of the record's name (version 0 for a model) is issued iff its clear    *)
(* flag is true; it is issued right before the add of the same record, and *)
(* the add is issued whether the delete succeeded or failed.               *)
(***************************************************************************)
DeleteOpOf(k) == IF k = 0 THEN "svcdb_model_delete" ELSE "svcdb_resource_delete"
AddOpOf(k) == IF k = 0 THEN "svcdb_model_add" ELSE "svcdb_resource_add"

C5_DeleteIffClearThenAdd ==
    Installing
        => /\ \A k \in {0, 2} :
                 Readable(Ev.fs[k])
                     => \A i \in 1..Len(Elems(Ev.fs[k])) :
                           LET elem == Elems(Ev.fs[k])[i]
                               name == elem.o[1]["name"].s
                               dels == CallsAt(calls, {DeleteOpOf(k)}, k, i - 1)
                               adds == CallsAt(calls, {AddOpOf(k)}, k, i - 1)
                           IN WellFormed(k, elem)
                                 => /\ Cardinality(adds) = 1
                                    /\ Cardinality(dels) =
                                           IF WantsClear(k, elem) THEN 1 ELSE 0
                                    /\ \A a \in adds : calls[a].args[1] = name
                                    /\ \A d \in dels :
                                          /\ calls[d].args =
                                                IF k = 0 THEN <<name, <<0>>>>
                                                ELSE <<name>>
                                          /\ d + 1 \in adds
           /\ \A j \in 1..Len(calls) :
                 calls[j].op \in DeleteOps
                     => /\ calls[j].site[1] \in {0, 2}
                        /\ WellFormed(calls[j].site[1],
                               Elems(Ev.fs[calls[j].site[1]])[calls[j].site[2] + 1])

\* A delete the registry refused, followed by the add of the same record.
C5_Witness ==
    /\ Installing
    /\ \E j \in 1..(Len(calls) - 1) :
          /\ calls[j].op = "svcdb_model_delete" /\ calls[j].ret # 0
          /\ calls[j + 1].op = "svcdb_model_add"
          /\ calls[j + 1].site = calls[j].site
    /\ \E j \in 1..(Len(calls) - 1) :
          /\ calls[j].op = "svcdb_resource_delete" /\ calls[j].ret = 0
          /\ calls[j + 1].op = "svcdb_resource_add"

(***************************************************************************)
(* C6.  Two sequential Install/Completed events that register the same     *)
(* model name, the first with clear_previous=true and the second with      *)
(* clear_previous=false, get two distinct, increasing versions; the second *)
(* is in the registry afterwards, and so is the first, which the second    *)
(* event does not clear (were the first gone, only the second would        *)
(* remain of the two).                                                     *)
(***************************************************************************)
\* The successful svcdb_model_add calls among cs.
IsModelAdded(c) == c.op = "svcdb_model_add" /\ c.ret = 0
ModelAdded(cs) == SelectSeq(cs, IsModelAdded)

IsModelDelete(c) == c.op = "svcdb_model_delete"

\* An Install/Completed event with one well-formed model object.
RegistersOneModel(input, cs) ==
    /\ InstallCompletedRpk(input.ev) /\ LookupOk(input.ev)
    /\ Readable(input.ev.fs[0]) /\ input.ev.fs[0].root.t = "object"
    /\ WellFormed(0, [t |-> "object", o |-> input.ev.fs[0].root.o])
    /\ Len(ModelAdded(cs)) = 1

C6_ClearThenKeepYieldsTwoVersions ==
    (/\ Handled /\ prev # <<>>
     /\ RegistersOneModel(prev[1].input, prev[1].calls)
     /\ RegistersOneModel(event[1], calls)
     /\ WantsClear(0, [t |-> "object", o |-> prev[1].input.ev.fs[0].root.o])
     /\ ~WantsClear(0, [t |-> "object", o |-> Ev.fs[0].root.o])
     /\ ModelAdded(prev[1].calls)[1].args[1] = ModelAdded(calls)[1].args[1])
        => LET name == ModelAdded(calls)[1].args[1]
               v1 == ModelAdded(prev[1].calls)[1].out
               v2 == ModelAdded(calls)[1].out
           IN /\ v1 < v2
              /\ v2 \in ModelVersions(db, name)
              /\ v1 \in ModelVersions(db, name)
              /\ \A v \in ModelVersions(db, name) : v <= v2

\* Such a pair of events, the first of which really cleared older versions.
C6_Witness ==
    /\ Handled /\ prev # <<>>
    /\ RegistersOneModel(prev[1].input, prev[1].calls)
    /\ RegistersOneModel(event[1], calls)
    /\ WantsClear(0, [t |-> "object", o |-> prev[1].input.ev.fs[0].root.o])
    /\ ~WantsClear(0, [t |-> "object", o |-> Ev.fs[0].root.o])
    /\ \E j \in 1..Len(prev[1].calls) :
          IsModelDelete(prev[1].calls[j]) /\ prev[1].calls[j].ret = 0
    /\ ModelVersions(db, S_m1) = {2, 3}

(***************************************************************************)
(* C7.  Over any sequence of Install/Completed events, with any mix of     *)
(* clear flags, the versions successful svcdb_model_add calls return for   *)
(* one model name are strictly increasing: none is reused or decremented.  *)
(***************************************************************************)
\* Every version an event's adds return exceeds those returned before.
NewVersionsExceed(before, cs) ==
    \A i \in 1..Len(cs) :
        IsModelAdded(cs[i])
            => /\ \A r \in before : r[1] = cs[i].args[1] => r[2] < cs[i].out
               /\ \A j \in 1..(i - 1) :
                     (IsModelAdded(cs[j]) /\ cs[j].args[1] = cs[i].args[1])
                         => cs[j].out < cs[i].out

C7_VersionsStrictlyIncrease ==
    [][pending # <<>> /\ pending' = <<>> /\ mainpc' = "loop"
          => NewVersionsExceed(returned, calls')]_vars

\* An add after a clear that emptied the name: version 2 or later, alone.
C7_Witness ==
    /\ Handled
    /\ \E j \in 1..(Len(calls) - 1) :
          /\ IsModelDelete(calls[j]) /\ calls[j].ret = 0
          /\ IsModelAdded(calls[j + 1])
          /\ calls[j + 1].out >= 2
          /\ ModelVersions(db, calls[j + 1].args[1]) = {calls[j + 1].out}

(***************************************************************************)
(* C8 (as claimed).  Every artifact registered while an Install/Completed  *)
(* event is handled, of any of the three kinds, carries a non-null         *)
(* AppInfo, the same for every record of the event: the one composed from  *)
(* the event's package id and the looked-up resource type and version.     *)
(***************************************************************************)
\* The value of a member of a JSON text, NULL if it has no such member.
MemberOf(text, member) ==
    IF \E i \in 1..Len(text) : text[i][1] = member
    THEN Ptr(text[CHOOSE i \in 1..Len(text) : text[i][1] = member][2])
    ELSE NULL

\* The text is the AppInfo of the event.
IsAppInfoOf(text, ev) ==
    /\ text # S_empty
    /\ MemberOf(text, "app_id") = Ptr(ev.package_name)
    /\ MemberOf(text, "res_type") = Ptr(ev.info.res_type)
    /\ MemberOf(text, "res_version") = Ptr(ev.info.res_version)

\* The AppInfo argument of an add or set call, NULL if it takes none.
AppInfoArg(c) ==
    IF c.op = "svcdb_model_add" THEN Ptr(c.args[5])
    ELSE IF c.op = "svcdb_resource_add" THEN Ptr(c.args[4])
    ELSE NULL

C8_EveryKindCarriesAppInfo ==
    Installing
        => \A j \in 1..Len(calls) :
              calls[j].op \in AddOps
                  => /\ AppInfoArg(calls[j]) # NULL
                     /\ IsAppInfoOf(AppInfoArg(calls[j])[1], Ev)

(***************************************************************************)
(* C8 (amended).  Every model and every resource registered while an       *)
(* Install/Completed event is handled carries a non-null AppInfo, the same *)
(* for every such record of the event: the one composed from the event's   *)
(* package id and the looked-up resource type and version.  A pipeline is  *)
(* registered with its name and description only, without AppInfo.         *)
(***************************************************************************)
C8_ModelsAndResourcesCarryAppInfo ==
    Installing
        => \A j \in 1..Len(calls) :
              /\ calls[j].op \in {"svcdb_model_add", "svcdb_resource_add"}
                    => /\ AppInfoArg(calls[j]) # NULL
                       /\ IsAppInfoOf(AppInfoArg(calls[j])[1], Ev)
                       /\ \A i \in 1..Len(calls) :
                             calls[i].op \in {"svcdb_model_add", "svcdb_resource_add"}
                                 => AppInfoArg(calls[i]) = AppInfoArg(calls[j])
              /\ calls[j].op = "svcdb_pipeline_set"
                    => /\ Len(calls[j].args) = 2
                       /\ AppInfoArg(calls[j]) = NULL

\* A model, a pipeline and a resource registered by one event.
C8_Witness ==
    /\ Installing
    /\ \E j \in 1..Len(calls) : calls[j].op = "svcdb_model_add" /\ calls[j].ret = 0
    /\ \E j \in 1..Len(calls) : calls[j].op = "svcdb_pipeline_set" /\ calls[j].ret = 0
    /\ \E j \in 1..Len(calls) : calls[j].op = "svcdb_resource_add" /\ calls[j].ret = 0
    /\ \E m \in db.models : IsAppInfoOf(m.app_info, Ev)
    /\ \E r \in db.resources : IsAppInfoOf(r.app_info, Ev)

(***************************************************************************)
(* C9.  When the registry rejects the add/set call of one record, the      *)
(* handler still issues, for every other record of the file and for every  *)
(* later kind of the event, the calls it issues when that call succeeds.   *)
(***************************************************************************)
\* The rejections other than those of add/set calls.
WithoutAddFailures(fails) == {f \in fails : f[3] # "add"}

C9_RejectedAddStopsNothing ==
    (Installing /\ \E f \in Fails : f[3] = "add")
        => IssuedSeq(calls) =
               IssuedSeq(pkg_mgr_event_cb(Ev, WithoutAddFailures(Fails), pre).calls)

\* A rejected add, and a call for another record after it.
C9_Witness ==
    /\ Installing
    /\ \E i \in 1..Len(calls) :
          /\ calls[i].op \in AddOps /\ calls[i].ret # 0
          /\ \E j \in (i + 1)..Len(calls) :
                calls[j].op \in AddOps /\ calls[j].site # calls[i].site
                /\ calls[j].ret = 0

(***************************************************************************)
(* C10.  An event whose package category is not the resource-package tag   *)
(* is ignored whatever its kind and phase: no metadata lookup, no registry *)
(* operation, and the registry is unchanged.                               *)
(***************************************************************************)
C10_OtherCategoryIgnored ==
    (Handled /\ ~TagMatches(Ev.type)) => (calls = <<>> /\ db = pre)

\* An Install/Completed event of another category, with descriptors.
C10_Witness ==
    /\ Handled
    /\ Ev.type = S_tpk
    /\ Ev.event_type = "INSTALL" /\ Ev.event_state = "COMPLETED"
    /\ Ev.fs = DirFull
    /\ pre # EmptyDb

(***************************************************************************)
(* C11.  For an event of a resource package the registry is mutated only   *)
(* when the event is Install/Completed: Uninstall/Started,                 *)
(* Update/Completed and every other (kind, phase) pair issue no registry   *)
(* operation and leave the registry as it was, so what the package         *)
(* registered earlier is still there after its uninstall or update.        *)
(***************************************************************************)
C11_OnlyInstallCompletedMutates ==
    (/\ Handled /\ TagMatches(Ev.type)
     /\ ~(Ev.event_type = "INSTALL" /\ Ev.event_state = "COMPLETED"))
        => (RegistryCalls(calls) = <<>> /\ db = pre)

\* The package that filled the registry is uninstalled; its model remains.
C11_Witness ==
    /\ Handled /\ TagMatches(Ev.type)
    /\ Ev.event_type = "UNINSTALL" /\ Ev.event_state = "STARTED"
    /\ Ev.fs = DirFull
    /\ \E m \in db.models : IsAppInfoOf(m.app_info, Ev)
    /\ \E r \in db.resources : IsAppInfoOf(r.app_info, Ev)
    /\ db.pipelines # {}

(***************************************************************************)
(* C12.  Within one Install/Completed event the kinds are handled in the   *)
(* order Model, Pipeline, Resource: every registry call for a model record *)
(* precedes every call for a pipeline record, which precedes every call    *)
(* for a resource record; within a kind the calls follow the records.      *)
(***************************************************************************)
\* The artifact kind a registry operation belongs to.
KindOfOp(op) ==
    IF op \in {"svcdb_model_delete", "svcdb_model_add"} THEN MLSVC_JSON_MODEL
    ELSE IF op = "svcdb_pipeline_set" THEN MLSVC_JSON_PIPELINE
    ELSE MLSVC_JSON_RESOURCE

C12_ModelPipelineResourceOrder ==
    Installing
        => LET rc == RegistryCalls(calls)
           IN \A i \in 1..Len(rc) : \A j \in (i + 1)..Len(rc) :
                 /\ KindOfOp(rc[i].op) <= KindOfOp(rc[j].op)
                 /\ rc[i].site[1] = KindOfOp(rc[i].op)
                 /\ KindOfOp(rc[i].op) = KindOfOp(rc[j].op)
                       => rc[i].site[2] <= rc[j].site[2]

\* One event that registers a model, then a pipeline, then a resource.
C12_Witness ==
    /\ Installing
    /\ \E i \in 1..Len(calls) : \E j \in (i + 1)..Len(calls) :
          \E k \in (j + 1)..Len(calls) :
             /\ calls[i].op = "svcdb_model_add"
             /\ calls[j].op = "svcdb_pipeline_set"
             /\ calls[k].op = "svcdb_resource_add"

(***************************************************************************)
(* C13.  A pipeline record with a name and a description leads to exactly  *)
(* one svcdb_pipeline_set (name, description) and to no delete.  The       *)
(* registry holds at most one pipeline entry per name.                     *)
(***************************************************************************)
IsPipelineSet(c) == c.op = "svcdb_pipeline_set"
IsAcceptedSet(c) == IsPipelineSet(c) /\ c.ret = 0

\* The pipeline entries the registry d holds for name.
PipelinesOf(d, name) == {p \in d.pipelines : p.name = name}

\* The names a pipeline entry or a pipeline call of the last event bears.
PipelineNames ==
    {p.name : p \in db.pipelines \cup pre.pipelines}
    \cup {calls[i].args[1] : i \in {j \in 1..Len(calls) : IsPipelineSet(calls[j])}}

\* The valid pipeline records of the last event: <<name, description>>.
ValidPipelineRecords ==
    LET elems == Elems(Ev.fs[MLSVC_JSON_PIPELINE])
        good == GoodIndices(MLSVC_JSON_PIPELINE, elems, 1)
    IN [i \in 1..Len(good) |->
           <<elems[good[i] + 1].o[1]["name"].s,
             elems[good[i] + 1].o[1]["description"].s>>]

\* One set call per valid pipeline record, in order, and no delete for it.
OneSetPerPipelineRecord ==
    LET recs == ValidPipelineRecords
        sets == SelectSeq(calls, IsAddOf1)
    IN /\ Len(sets) = Len(recs)
       /\ \A i \in 1..Len(recs) :
             sets[i].op = "svcdb_pipeline_set" /\ sets[i].args = recs[i]
       /\ \A i \in 1..Len(calls) :
             calls[i].site[1] = MLSVC_JSON_PIPELINE
                => calls[i].op = "svcdb_pipeline_set"

\* C13 as stated: after an event the entry of a name bears the description
\* of the last valid record of that name the event processed.
C13_LastValidRecordWins ==
    Installing
        => /\ OneSetPerPipelineRecord
           /\ \A name \in PipelineNames :
                 /\ Cardinality(PipelinesOf(db, name)) <= 1
                 /\ LET recs == SelectSeq(ValidPipelineRecords,
                                          LAMBDA r : r[1] = name)
                    IN recs # <<>>
                          => PipelinesOf(db, name) =
                                {[name |-> name,
                                  description |-> recs[Len(recs)][2]]}

\* C13, amended: after an event the entry of a name bears the description
\* of the last record of that name whose set the registry accepted; a name
\* with no accepted set keeps the entry it had before the event, or none.
C13_LastAcceptedSetWins ==
    /\ \A name \in PipelineNames : Cardinality(PipelinesOf(db, name)) <= 1
    /\ Installing => OneSetPerPipelineRecord
    /\ Handled
          => \A name \in PipelineNames :
                LET acc == SelectSeq(calls,
                              LAMBDA c : IsAcceptedSet(c) /\ c.args[1] = name)
                IN IF acc # <<>>
                   THEN PipelinesOf(db, name) =
                           {[name |-> name,
                             description |-> acc[Len(acc)].args[2]]}
                   ELSE PipelinesOf(db, name) = PipelinesOf(pre, name)

\* Two records of one name in one event, the second rejected: the entry
\* an earlier event left is replaced by the description of the first.
C13_Witness ==
    /\ Installing
    /\ \E i \in 1..Len(calls) : \E j \in (i + 1)..Len(calls) :
          /\ IsAcceptedSet(calls[i]) /\ IsPipelineSet(calls[j])
          /\ calls[j].ret # 0
          /\ calls[i].args = <<S_m1, S_d1>> /\ calls[j].args = <<S_m1, S_d2>>
    /\ pre.pipelines = {[name |-> S_m1, description |-> S_d2]}
    /\ db.pipelines = {[name |-> S_m1, description |-> S_d1]}

(***************************************************************************)
(* C14.  An Install/Completed event of a resource package whose lookup     *)
(* succeeds and whose only descriptor is the model descriptor, with one    *)
(* record {name, model, activate: "true"}, leads to exactly one            *)
(* svcdb_model_add of that name and path, active, with the description ""  *)
(* and the AppInfo of the event, and to no other registry call; the add    *)
(* returns version 1.                                                      *)
(***************************************************************************)
\* The event of the scenario, with the registry accepting the add.
ScenarioInput ==
    Input(InstallOf(S_app1, InfoOk, DirOne(MLSVC_JSON_MODEL, M_ok)), {})

\* The registry calls of the scenario: one add, which returns version v.
ScenarioCalls(v) ==
    LET rc == RegistryCalls(calls)
    IN /\ Len(rc) = 1
       /\ rc[1].op = "svcdb_model_add"
       /\ rc[1].args[1] = S_m1 /\ rc[1].args[2] = S_path
       /\ rc[1].args[3] = TRUE /\ rc[1].args[4] = S_empty
       /\ IsAppInfoOf(rc[1].args[5], Ev)
       /\ rc[1].ret = 0 /\ rc[1].out = v
       /\ \E m \in db.models :
             /\ m.name = S_m1 /\ m.version = v /\ m.active
             /\ m.path = S_path /\ m.description = S_empty

\* C14 as stated: from a registry that holds no model of that name.
C14_ScenarioFromNoModel ==
    (Handled /\ event[1] = ScenarioInput /\ ModelVersions(pre, S_m1) = {})
        => ScenarioCalls(1)

\* C14, amended: from a registry that never registered that name.
C14_ScenarioFromNewName ==
    /\ (Handled /\ event[1] = ScenarioInput /\ LastVersion(pre, S_m1) = 0)
          => ScenarioCalls(1)
    /\ (Handled /\ event[1] = ScenarioInput)
          => ScenarioCalls(LastVersion(pre, S_m1) + 1)

\* The scenario, first on a registry that other artifacts already fill.
C14_Witness ==
    /\ Handled /\ event[1] = ScenarioInput
    /\ LastVersion(pre, S_m1) = 0
    /\ pre.pipelines # {} /\ pre.resources # {}
    /\ \E m \in db.models : m.name = S_m1 /\ m.version = 1

(***************************************************************************)
(* C15.  A model record whose name is the empty string is skipped like a   *)
(* record without a name: neither svcdb_model_delete nor svcdb_model_add   *)
(* is called for it.                                                       *)
(***************************************************************************)
\* The record of an event whose descriptor of kind k holds one record.
RecordOf(ev, k) == Elems(ev.fs[k])[1].o[1]

\* The event ships a descriptor of kind k, and it holds one record.
HasRecord(ev, k) == Len(Elems(ev.fs[k])) = 1 /\ Elems(ev.fs[k])[1].t = "object"

C15_EmptyNameSkipped ==
    (/\ Installing /\ HasRecord(Ev, MLSVC_JSON_MODEL)
     /\ RecordOf(Ev, MLSVC_JSON_MODEL)["name"] = JString(S_empty))
        => \A i \in 1..Len(calls) :
              calls[i].op \notin {"svcdb_model_delete", "svcdb_model_add"}

(***************************************************************************)
(* C16.  The flags of a record are true exactly when the member is a       *)
(* string equal to "true" ignoring letter case: a model is added active    *)
(* iff "activate" is such a string, and the old entries of a model or a    *)
(* resource are deleted iff "clear" is such a string.  An absent member,   *)
(* a member that is not a string, and any other text give false.           *)
(***************************************************************************)
\* The member is a string of the letters t, r, u, e, each in either case.
SaysTrue(member) ==
    /\ member.t = "string"
    /\ Len(member.s) = 4
    /\ member.s[1] \in {116, 84} /\ member.s[2] \in {114, 82}
    /\ member.s[3] \in {117, 85} /\ member.s[4] \in {101, 69}

\* The flags the calls for the one record of kind k show.
FlagsShown(k) ==
    LET rec == RecordOf(Ev, k)
        dels == SelectSeq(calls, LAMBDA c : c.op = DeleteOpOf(k))
        adds == SelectSeq(calls, LAMBDA c : c.op = AddOpOf(k))
    IN /\ Len(adds) = 1
       /\ Len(dels) = (IF SaysTrue(rec["clear"]) THEN 1 ELSE 0)
       /\ k = MLSVC_JSON_MODEL
             => adds[1].args[3] = SaysTrue(rec["activate"])

C16_FlagsTrueIffTrueIgnoringCase ==
    Installing
        => \A k \in {MLSVC_JSON_MODEL, MLSVC_JSON_RESOURCE} :
              (HasRecord(Ev, k) /\ WellFormed(k, Elems(Ev.fs[k])[1]))
                  => FlagsShown(k)

\* "TRUE" activates the model while "yes" clears nothing.
C16_Witness ==
    /\ Installing /\ HasRecord(Ev, MLSVC_JSON_MODEL)
    /\ RecordOf(Ev, MLSVC_JSON_MODEL)["activate"] = JString(S_TRUE)
    /\ RecordOf(Ev, MLSVC_JSON_MODEL)["clear"] = JString(S_yes)
    /\ pre.models # {}
    /\ \E i \in 1..Len(calls) :
          calls[i].op = "svcdb_model_add" /\ calls[i].args[3] = TRUE
    /\ \A i \in 1..Len(calls) : calls[i].op # "svcdb_model_delete"

(***************************************************************************)
(* C17.  The callback runs to completion: all registry operations of one   *)
(* event are issued before any operation of the next event, also when the  *)
(* next event is announced while the callback is at work; the delete and   *)
(* the add of a record that clears are never separated by an operation of  *)
(* another event; and the registry the callback leaves is the one it       *)
(* computes from the registry it found.                                    *)
(***************************************************************************)
\* The registry operations of all invocations, in time order.
RegistryLog == SelectSeq(oplog, IsRegistryCall)

C17_RunToCompletion ==
    LET rl == RegistryLog
    IN /\ \A i \in 1..Len(rl) : \A j \in (i + 1)..Len(rl) : rl[i].id <= rl[j].id
       /\ \A i \in 1..Len(rl) :
             rl[i].op \in DeleteOps
                => IF i < Len(rl)
                   THEN /\ rl[i + 1].id = rl[i].id
                        /\ rl[i + 1].site = rl[i].site
                        /\ rl[i + 1].op = AddOpOf(rl[i].site[1])
                   ELSE frames # <<>> /\ Head(frames).id = rl[i].id
       /\ \A n \in 1..Len(frames) :
             frames[n].pc = Len(frames[n].plan)
                => db = pkg_mgr_event_cb(frames[n].input.ev,
                                         frames[n].input.fails,
                                         frames[n].pre).db

\* An event is announced while the callback deletes and adds for an
\* earlier one; its own operations follow the return of that invocation.
C17_Witness ==
    /\ frames = <<>> /\ queue = <<>>
    /\ \E a \in 1..Len(oplog) : \E b \in (a + 1)..Len(oplog) :
          \E c \in (b + 1)..Len(oplog) : \E d \in (c + 1)..Len(oplog) :
             /\ oplog[a].id = 1 /\ oplog[a].op \in DeleteOps /\ oplog[a].ret = 0
             /\ oplog[b].id = 1 /\ oplog[b].op \in AddOps
             /\ oplog[c].id = 1 /\ oplog[c].op = "return"
             /\ oplog[d].id = 2 /\ oplog[d].busy /\ oplog[d].op \in AddOps

(***************************************************************************)
(* C18.  When a record asks to clear the old entries, the delete succeeds  *)
(* and the add is rejected, the handler neither restores what it deleted   *)
(* nor tries the add again: after the event the registry holds no entry    *)
(* for the name, and the records after that one are processed.             *)
(***************************************************************************)
\* The entries the registry d holds for name, of kind k (model or resource).
EntriesOf(d, k, name) ==
    IF k = MLSVC_JSON_MODEL THEN {m \in d.models : m.name = name}
    ELSE {r \in d.resources : r.name = name}

\* calls[j] is a rejected add, right after the accepted delete of its record.
ClearedThenRejected(k, j) ==
    /\ j > 1 /\ j <= Len(calls)
    /\ calls[j].op = AddOpOf(k) /\ calls[j].ret # 0
    /\ calls[j - 1].op = DeleteOpOf(k) /\ calls[j - 1].ret = 0
    /\ calls[j - 1].site = calls[j].site

\* The accepted adds of name after calls[j].
LaterAdds(k, j, name) ==
    {i \in (j + 1)..Len(calls) :
        calls[i].op = AddOpOf(k) /\ calls[i].ret = 0 /\ calls[i].args[1] = name}

\* The records after the one at site: each well-formed one has its add.
LaterRecordsProcessed(site) ==
    \A k \in 0..2 : \A i \in 1..Len(Elems(Ev.fs[k])) :
       (/\ k > site[1] \/ (k = site[1] /\ i - 1 > site[2])
        /\ WellFormed(k, Elems(Ev.fs[k])[i]))
          => \E c \in 1..Len(calls) :
                calls[c].site = <<k, i - 1>> /\ calls[c].op \in AddOps

\* C18 as stated: after the event the registry holds no entry for the name.
C18_NoEntryAfterEvent ==
    Installing
        => \A k \in {MLSVC_JSON_MODEL, MLSVC_JSON_RESOURCE} :
              \A j \in 1..Len(calls) :
                 ClearedThenRejected(k, j)
                    => /\ Cardinality({i \in 1..Len(calls) :
                                          calls[i].site = calls[j].site}) = 2
                       /\ EntriesOf(db, k, calls[j].args[1]) = {}
                       /\ LaterRecordsProcessed(calls[j].site)

\* C18, amended: the entries the registry held for the name before the
\* event are gone, and it holds no entry for the name unless a later record
\* of the same event registers the name again.
C18_NoRollbackNoRetry ==
    Installing
        => \A k \in {MLSVC_JSON_MODEL, MLSVC_JSON_RESOURCE} :
              \A j \in 1..Len(calls) :
                 ClearedThenRejected(k, j)
                    => LET name == calls[j].args[1]
                           site == calls[j].site
                       IN /\ Cardinality({i \in 1..Len(calls) :
                                             calls[i].site = site}) = 2
                          /\ EntriesOf(db, k, name) \cap EntriesOf(pre, k, name) = {}
                          /\ LaterAdds(k, j, name) = {}
                                => EntriesOf(db, k, name) = {}
                          /\ LaterRecordsProcessed(site)

\* The old versions of a model are deleted, its add is rejected and the
\* pipeline record after it is set: the registry has lost the model.
C18_Witness ==
    /\ Installing
    /\ \E j \in 1..Len(calls) :
          /\ ClearedThenRejected(MLSVC_JSON_MODEL, j)
          /\ j < Len(calls)
          /\ calls[j + 1].op = "svcdb_pipeline_set" /\ calls[j + 1].ret = 0
          /\ EntriesOf(pre, MLSVC_JSON_MODEL, calls[j].args[1]) # {}
          /\ EntriesOf(db, MLSVC_JSON_MODEL, calls[j].args[1]) = {}

(***************************************************************************)
(* C19.  On every path through the Install/Completed branch on which       *)
(* package_info_create succeeded, package_info_destroy is called exactly   *)
(* once before the handler returns, also when the resource type or the     *)
(* resource version cannot be read; when the lookup succeeds it is called  *)
(* before the first registry operation.  Where no package information was  *)
(* created, none is destroyed.                                             *)
(***************************************************************************)
\* The positions of the calls of op among the calls of the last event.
PositionsOf(op) == {i \in 1..Len(calls) : calls[i].op = op}

C19_InfoDestroyedOnce ==
    Handled
        => LET created == {i \in PositionsOf("package_info_create") :
                              calls[i].ret = 0}
               destroyed == PositionsOf("package_info_destroy")
           IN /\ Cardinality(created) = Cardinality(destroyed)
              /\ (InstallCompletedRpk(Ev) /\ Ev.info.create = 0)
                    => /\ Cardinality(destroyed) = 1
                       /\ \A c \in created : \A d \in destroyed : c < d
              /\ \A d \in destroyed : \A i \in 1..Len(calls) :
                    \/ IsRegistryCall(calls[i]) /\ d < i
                    \/ calls[i].op \in {"package_info_create",
                                        "package_info_get_res_type",
                                        "package_info_get_res_version"} /\ i < d
                    \/ i = d

\* The resource version cannot be read: the information is destroyed and
\* the handler returns without a registry call.
C19_Witness ==
    /\ Handled /\ InstallCompletedRpk(Ev)
    /\ Ev.info.create = 0 /\ Ev.info.type_ret = 0 /\ Ev.info.version_ret # 0
    /\ Len(calls) = 4
    /\ calls[1].op = "package_info_create" /\ calls[1].ret = 0
    /\ calls[4].op = "package_info_destroy"

(***************************************************************************)
(* C20.  In every run of main, svcdb_finalize is called only after         *)
(* svcdb_initialize was called in that run, and pkg_mgr_deinit only after  *)
(* pkg_mgr_init returned 0; a run that reaches the main loop calls         *)
(* svcdb_initialize, pkg_mgr_init, pkg_mgr_deinit, svcdb_finalize in this  *)
(* order.                                                                  *)
(***************************************************************************)
\* The names of the lifecycle calls main has made, in order.
MainCalls == [i \in 1..Len(mainlog) |-> mainlog[i][1]]

C20_TeardownOnlyAfterSetup ==
    /\ \A i \in 1..Len(mainlog) :
          /\ mainlog[i][1] = "svcdb_finalize"
                => \E j \in 1..(i - 1) : mainlog[j][1] = "svcdb_initialize"
          /\ mainlog[i][1] = "pkg_mgr_deinit"
                => \E j \in 1..(i - 1) : mainlog[j] = <<"pkg_mgr_init", 0>>
    /\ (mainpc = "done" /\ Len(mainlog) > 1)
          => MainCalls = <<"svcdb_initialize", "pkg_mgr_init",
                           "pkg_mgr_deinit", "svcdb_finalize">>

====
